---- MODULE Spec2Model ----
(***************************************************************************)
(* Model of scripts/calculate_savings.py, the cost savings calculator.     *)
(*                                                                         *)
(* Units.  The source holds prices as dollars per million tokens and       *)
(* divides every sum of token*price products by 1_000_000.  Here a price   *)
(* is held in cents per million tokens (3.00 -> 300, 0.30 -> 30), so a     *)
(* cost is an integer count of 1e-8 dollars: 0.018 dollars is 1800000.     *)
(* The arithmetic is exact; the rounding of binary floating point and of   *)
(* the report's presentation formats (.4f, .1f, .2f) is not modelled.      *)
(*                                                                         *)
(* The second part models scripts/batch_example.py: main's submit, poll    *)
(* loop and fetch against the batch service the client talks to.           *)
(***************************************************************************)
EXTENDS Integers, Sequences, FiniteSets, TLC

VARIABLES
    call,         \* the call made: function name and its arguments
    outcome,      \* "none" | "returned" | "ZeroDivisionError"
    ret,          \* <<cost>> when the call returned a cost, else << >>
    stdout,       \* what the call printed, one label per print
    locals,       \* print_report's normal, batch, cached, combined: << >> or <<record>>
    percent,      \* the savings ratios print_report formatted, as num/den
    projections,  \* the projections print_report derived: << >> or <<record>>
    bpc,          \* batch_example.main: "start" | "retrieve" | "sleep" | "waited" | "done"
    job,          \* the batch at the service: its processing_status and outcomes
    status,       \* wait_for_completion's local: the status the last retrieve returned
    polls,        \* retrieve calls made so far (counted up to MaxPolls)
    fetches,      \* get_results calls made so far
    results       \* what get_results returned, one record per request

calcVars == <<call, outcome, ret, stdout, locals, percent, projections>>
batchVars == <<bpc, job, status, polls, fetches, results>>
vars == <<call, outcome, ret, stdout, locals, percent, projections,
          bpc, job, status, polls, fetches, results>>

(***************************************************************************)
(* Pricing (class Pricing), cents per million tokens.                      *)
(***************************************************************************)
SONNET_INPUT == 300
SONNET_OUTPUT == 1500
SONNET_BATCH_INPUT == 150
SONNET_BATCH_OUTPUT == 750
SONNET_CACHE_WRITE == 375
SONNET_CACHE_READ == 30

OPUS_INPUT == 500
OPUS_OUTPUT == 2500
OPUS_BATCH_INPUT == 250
OPUS_BATCH_OUTPUT == 1250

HAIKU_INPUT == 100
HAIKU_OUTPUT == 500
HAIKU_BATCH_INPUT == 50
HAIKU_BATCH_OUTPUT == 250

(***************************************************************************)
(* Inputs.  The argparse defaults are always among the inputs tried.       *)
(***************************************************************************)
DefaultInput == 1000
DefaultOutput == 500
DefaultSystem == 2000
DefaultRequests == 100

MaxTokens == 3
MaxRequests == 3

Tokens == (0..MaxTokens) \cup {DefaultInput, DefaultOutput, DefaultSystem}
Requests == (0..MaxRequests) \cup {DefaultRequests}

\* --model choices of the command line
Choices == {"sonnet", "opus", "haiku"}
\* a calculator function takes any string as its model
Identifiers == Choices \cup {"Sonnet", "gpt"}

(***************************************************************************)
(* The if/elif/else price selection of the two tiered calculators.         *)
(***************************************************************************)
InputPrice(model) ==
    IF model = "sonnet" THEN SONNET_INPUT
    ELSE IF model = "opus" THEN OPUS_INPUT
    ELSE HAIKU_INPUT

OutputPrice(model) ==
    IF model = "sonnet" THEN SONNET_OUTPUT
    ELSE IF model = "opus" THEN OPUS_OUTPUT
    ELSE HAIKU_OUTPUT

BatchInputPriceAsOutput(model) == OutputPrice(model)

BatchInputPrice(model) ==
    IF model = "sonnet" THEN SONNET_BATCH_INPUT
    ELSE IF model = "opus" THEN OPUS_BATCH_INPUT
    ELSE HAIKU_BATCH_INPUT

BatchOutputPrice(model) ==
    IF model = "sonnet" THEN SONNET_BATCH_OUTPUT
    ELSE IF model = "opus" THEN OPUS_BATCH_OUTPUT
    ELSE HAIKU_BATCH_OUTPUT

calculate_normal_cost(input_tokens, output_tokens, requests, model) ==
    input_tokens * requests * InputPrice(model)
    + output_tokens * requests * OutputPrice(model)

calculate_batch_cost(input_tokens, output_tokens, requests, model) ==
    input_tokens * requests * BatchInputPrice(model)
    + output_tokens * requests * BatchOutputPrice(model)

(***************************************************************************)
(* calculate_cached_cost: the advisory, the first request (cache write),   *)
(* the subsequent requests (cache read).  The model argument decides the   *)
(* advisory only; every price is a SONNET_ price.                          *)
(***************************************************************************)
CacheAdvisoryAlways(model) == <<"advisory">>

CacheAdvisory(model) ==
    IF model # "sonnet" THEN <<"advisory">> ELSE << >>

CachedFirstRequestNoWrite(input_tokens, output_tokens, system_tokens) ==
    system_tokens * SONNET_INPUT
    + input_tokens * SONNET_INPUT
    + output_tokens * SONNET_OUTPUT

CachedFirstRequest(input_tokens, output_tokens, system_tokens) ==
    system_tokens * SONNET_CACHE_WRITE
    + input_tokens * SONNET_INPUT
    + output_tokens * SONNET_OUTPUT

CachedSubsequentEveryRequest(input_tokens, output_tokens, system_tokens, requests) ==
    IF requests > 1
    THEN requests * (system_tokens * SONNET_CACHE_READ
                     + input_tokens * SONNET_INPUT
                     + output_tokens * SONNET_OUTPUT)
    ELSE 0

CachedSubsequent(input_tokens, output_tokens, system_tokens, requests) ==
    IF requests > 1
    THEN (requests - 1) * (system_tokens * SONNET_CACHE_READ
                           + input_tokens * SONNET_INPUT
                           + output_tokens * SONNET_OUTPUT)
    ELSE 0

calculate_cached_cost(input_tokens, output_tokens, system_tokens, requests, model) ==
    CachedFirstRequest(input_tokens, output_tokens, system_tokens)
    + CachedSubsequent(input_tokens, output_tokens, system_tokens, requests)

calculate_combined_cost_write_each(input_tokens, output_tokens, system_tokens, requests) ==
    requests * (system_tokens * SONNET_CACHE_WRITE
                + input_tokens * SONNET_BATCH_INPUT
                + output_tokens * SONNET_BATCH_OUTPUT)

calculate_combined_cost(input_tokens, output_tokens, system_tokens, requests) ==
    LET first_request == system_tokens * SONNET_CACHE_WRITE
                         + input_tokens * SONNET_BATCH_INPUT
                         + output_tokens * SONNET_BATCH_OUTPUT
        subsequent == IF requests > 1
                      THEN (requests - 1) * (system_tokens * SONNET_CACHE_READ
                                             + input_tokens * SONNET_BATCH_INPUT
                                             + output_tokens * SONNET_BATCH_OUTPUT)
                      ELSE 0
    IN first_request + subsequent

(***************************************************************************)
(* print_report: the four figures, then the table, then the projections.   *)
(***************************************************************************)
ReportFiguresInputOnly(input_tokens, output_tokens, system_tokens, requests, model) ==
    [normal   |-> calculate_normal_cost(input_tokens, output_tokens, requests, model),
     batch    |-> calculate_batch_cost(input_tokens, output_tokens, requests, model),
     cached   |-> calculate_cached_cost(input_tokens, output_tokens, system_tokens,
                                        requests, model),
     combined |-> calculate_combined_cost(input_tokens, output_tokens, system_tokens,
                                          requests)]

ReportFigures(input_tokens, output_tokens, system_tokens, requests, model) ==
    [normal   |-> calculate_normal_cost(input_tokens + system_tokens, output_tokens,
                                        requests, model),
     batch    |-> calculate_batch_cost(input_tokens + system_tokens, output_tokens,
                                       requests, model),
     cached   |-> calculate_cached_cost(input_tokens, output_tokens, system_tokens,
                                        requests, model),
     combined |-> calculate_combined_cost(input_tokens, output_tokens, system_tokens,
                                          requests)]

\* (1 - cost/normal) * 100 is kept as the exact ratio (normal - cost) / normal,
\* of which it is the hundredfold; the division raises when normal is 0.
SavingsPercent(cost, normal) == [num |-> normal - cost, den |-> normal]

\* A projection is days * daily cost; the product is kept as its two
\* factors, since a year of the largest daily cost exceeds TLC's integers.
Times(cost, days) == [daily |-> cost, days |-> days]

Projections(f, requests) ==
    [daily_requests |-> requests,
     monthly        |-> Times(f.combined, 30),
     yearly         |-> Times(f.combined, 365),
     yearly_normal  |-> Times(f.normal, 365),
     yearly_savings |-> Times(f.normal - f.combined, 365)]

Args(fn, input_tokens, output_tokens, system_tokens, requests, model) ==
    [fn |-> fn, input_tokens |-> input_tokens, output_tokens |-> output_tokens,
     system_tokens |-> system_tokens, requests |-> requests, model |-> model]

\* One run of the script, or one call of a calculator by an importing
\* program, is modelled: it starts with nothing called and makes its call.
Init ==
    /\ call = Args("none", 0, 0, 0, 0, "")
    /\ outcome = "none"
    /\ ret = << >>
    /\ stdout = << >>
    /\ locals = << >>
    /\ percent = << >>
    /\ projections = << >>
    /\ bpc = "start"
    /\ job = [processing_status |-> "none", outcomes |-> << >>]
    /\ status = "none"
    /\ polls = 0
    /\ fetches = 0
    /\ results = << >>

NormalCost(i, o, r, m) ==
    /\ outcome = "none"
    /\ call' = Args("calculate_normal_cost", i, o, 0, r, m)
    /\ outcome' = "returned"
    /\ ret' = <<calculate_normal_cost(i, o, r, m)>>
    /\ stdout' = << >>
    /\ locals' = << >>
    /\ percent' = << >>
    /\ projections' = << >>
    /\ UNCHANGED batchVars

BatchCost(i, o, r, m) ==
    /\ outcome = "none"
    /\ call' = Args("calculate_batch_cost", i, o, 0, r, m)
    /\ outcome' = "returned"
    /\ ret' = <<calculate_batch_cost(i, o, r, m)>>
    /\ stdout' = << >>
    /\ locals' = << >>
    /\ percent' = << >>
    /\ projections' = << >>
    /\ UNCHANGED batchVars

CachedCost(i, o, s, r, m) ==
    /\ outcome = "none"
    /\ call' = Args("calculate_cached_cost", i, o, s, r, m)
    /\ outcome' = "returned"
    /\ ret' = <<calculate_cached_cost(i, o, s, r, m)>>
    /\ stdout' = CacheAdvisory(m)
    /\ locals' = << >>
    /\ percent' = << >>
    /\ projections' = << >>
    /\ UNCHANGED batchVars

CombinedCost(i, o, s, r) ==
    /\ outcome = "none"
    /\ call' = Args("calculate_combined_cost", i, o, s, r, "sonnet")
    /\ outcome' = "returned"
    /\ ret' = <<calculate_combined_cost(i, o, s, r)>>
    /\ stdout' = << >>
    /\ locals' = << >>
    /\ percent' = << >>
    /\ projections' = << >>
    /\ UNCHANGED batchVars

\* main: argparse admits only Choices, then print_report runs.  The batch
\* row is the first to divide by normal: with normal = 0 the call raises
\* ZeroDivisionError there, after the Normal API row has been printed.
PrintReport(i, o, s, r, m) ==
    LET f == ReportFigures(i, o, s, r, m)
        head == CacheAdvisory(m) \o <<"banner", "usage", "table_head", "row_normal">>
    IN /\ outcome = "none"
       /\ call' = Args("print_report", i, o, s, r, m)
       /\ ret' = << >>
       /\ locals' = <<f>>
       /\ IF f.normal = 0
          THEN /\ outcome' = "ZeroDivisionError"
               /\ stdout' = head
               /\ percent' = << >>
               /\ projections' = << >>
          ELSE /\ outcome' = "returned"
               /\ stdout' = head \o <<"row_batch", "row_cached", "row_combined",
                                     "table_foot", "projections", "tips">>
               /\ percent' = <<SavingsPercent(f.batch, f.normal),
                               SavingsPercent(f.cached, f.normal),
                               SavingsPercent(f.combined, f.normal)>>
               /\ projections' = <<Projections(f, r)>>
       /\ UNCHANGED batchVars

Next ==
    \/ \E i \in Tokens, o \in Tokens, r \in Requests, m \in Identifiers :
          NormalCost(i, o, r, m)
    \/ \E i \in Tokens, o \in Tokens, r \in Requests, m \in Identifiers :
          BatchCost(i, o, r, m)
    \/ \E i \in Tokens, o \in Tokens, s \in Tokens, r \in Requests, m \in Identifiers :
          CachedCost(i, o, s, r, m)
    \/ \E i \in Tokens, o \in Tokens, s \in Tokens, r \in Requests :
          CombinedCost(i, o, s, r)
    \/ \E i \in Tokens, o \in Tokens, s \in Tokens, r \in Requests, m \in Choices :
          PrintReport(i, o, s, r, m)

Spec == Init /\ [][Next]_vars

(***************************************************************************)
(* batch_example.py.  main submits the tasks, waits in the poll loop of    *)
(* wait_for_completion, then fetches the results.  The batch service is    *)
(* the client's other end: it moves the batch's processing_status on its   *)
(* own, and "ended" is final.  Every client call is taken to return; the   *)
(* script catches no exception.  What the script prints is not modelled.   *)
(***************************************************************************)
NumTasks == 5
MaxPolls == 3

\* per-request result types the service reports
ResultTypes == {"succeeded", "errored"}

create_batch_requests(n) == [i \in 1..n |-> [custom_id |-> i - 1]]

\* the loop of wait_for_completion breaks on this test and on nothing else
LoopExitsUnlessInProgress(s) == s # "in_progress"

LoopExits(s) == s = "ended"

\* one record per result of the batch; the text only of a succeeded one
get_results(outcomes) ==
    [i \in 1..Len(outcomes) |->
        [id      |-> i - 1,
         status  |-> outcomes[i],
         content |-> IF outcomes[i] = "succeeded" THEN "text" ELSE "None"]]

\* submit_batch: batches.create of one request per task
SubmitBatch ==
    /\ bpc = "start"
    /\ Len(create_batch_requests(NumTasks)) = NumTasks
    /\ job' = [processing_status |-> "in_progress", outcomes |-> << >>]
    /\ bpc' = "retrieve"
    /\ UNCHANGED <<status, polls, fetches, results>>
    /\ UNCHANGED calcVars

\* one pass of the while True loop up to the break or the sleep
Retrieve ==
    /\ bpc = "retrieve"
    /\ status' = job.processing_status
    /\ polls' = IF polls < MaxPolls THEN polls + 1 ELSE polls
    /\ bpc' = IF LoopExits(job.processing_status) THEN "waited" ELSE "sleep"
    /\ UNCHANGED <<job, fetches, results>>
    /\ UNCHANGED calcVars

\* time.sleep(poll_interval) returns and the loop goes round
Sleep ==
    /\ bpc = "sleep"
    /\ bpc' = "retrieve"
    /\ UNCHANGED <<job, status, polls, fetches, results>>
    /\ UNCHANGED calcVars

\* main after wait_for_completion returned: get_results, then the printing
GetResults ==
    /\ bpc = "waited"
    /\ fetches' = fetches + 1
    /\ results' = get_results(job.outcomes)
    /\ bpc' = "done"
    /\ UNCHANGED <<job, status, polls>>
    /\ UNCHANGED calcVars

\* the service: a batch in progress may be cancelled
ServiceCancels ==
    /\ job.processing_status = "in_progress"
    /\ job' = [job EXCEPT !.processing_status = "canceling"]
    /\ UNCHANGED <<bpc, status, polls, fetches, results>>
    /\ UNCHANGED calcVars

\* the service: processing ends, each request succeeded or errored
ServiceEnds ==
    /\ job.processing_status \in {"in_progress", "canceling"}
    /\ \E outcomes \in [1..NumTasks -> ResultTypes] :
          job' = [processing_status |-> "ended", outcomes |-> outcomes]
    /\ UNCHANGED <<bpc, status, polls, fetches, results>>
    /\ UNCHANGED calcVars

MainStep == SubmitBatch \/ Retrieve \/ Sleep \/ GetResults

BatchNext ==
    \/ SubmitBatch
    \/ Retrieve
    \/ Sleep
    \/ GetResults
    \/ ServiceCancels
    \/ ServiceEnds

\* The script is one sequential process that keeps running: a call that
\* can return does, and the sleep ends.  Nothing makes the service end a batch.
BatchSpec == Init /\ [][BatchNext]_vars /\ WF_vars(MainStep)

(***************************************************************************)
(* Properties.  Each is read in the state after the call it is about.      *)
(***************************************************************************)
Called(fn) == call.fn = fn /\ outcome # "none"

\* C1: for every model identifier outside {sonnet, opus, haiku},
\* calculate_normal_cost and calculate_batch_cost fail with an invalid-tier
\* error and return no cost.
C1_InvalidTierFails ==
    (/\ call.fn \in {"calculate_normal_cost", "calculate_batch_cost"}
     /\ outcome # "none"
     /\ call.model \notin Choices)
    => outcome = "InvalidTierError" /\ ret = << >>

\* C2: when the normal cost of a report is zero the report does not raise:
\* the four costs are 0, the three savings percentages are produced and the
\* report completes.
C2_ZeroNormalReportCompletes ==
    (Called("print_report") /\ locals[1].normal = 0 /\ call.requests >= 1)
    => /\ outcome = "returned"
       /\ locals[1].batch = 0 /\ locals[1].cached = 0 /\ locals[1].combined = 0
       /\ Len(percent) = 3
       /\ Len(projections) = 1

\* C3: for every tier of {sonnet, opus, haiku}, token counts >= 0 and
\* requests >= 1, the batch cost is at most the normal cost of the same
\* arguments.
C3_BatchAtMostNormal ==
    (Called("calculate_batch_cost") /\ call.model \in Choices /\ call.requests >= 1)
    => /\ outcome = "returned"
       /\ ret[1] <= calculate_normal_cost(call.input_tokens, call.output_tokens,
                                          call.requests, call.model)

C3_Witness ==
    /\ Called("calculate_batch_cost")
    /\ call.model = "opus"
    /\ call.requests >= 2
    /\ call.input_tokens > 0
    /\ ret[1] < calculate_normal_cost(call.input_tokens, call.output_tokens,
                                      call.requests, call.model)

\* C4: with requests = 1 and a valid tier, the cached cost is exactly
\* system * cache_write + input * input_price(tier) + output * output_price(tier),
\* the prices being the standalone prices of the tier given.
C4_SingleRequestCachedCost ==
    (Called("calculate_cached_cost") /\ call.model \in Choices /\ call.requests = 1)
    => ret[1] = call.system_tokens * SONNET_CACHE_WRITE
                + call.input_tokens * InputPrice(call.model)
                + call.output_tokens * OutputPrice(call.model)

\* C5: for requests > 1 and a valid tier, one more request raises the cached
\* cost by exactly system * cache_read + input * input_price(tier)
\* + output * output_price(tier), the prices being those of the tier given.
C5_ReadPhaseLinear ==
    (Called("calculate_cached_cost") /\ call.model \in Choices /\ call.requests > 1)
    => calculate_cached_cost(call.input_tokens, call.output_tokens,
                             call.system_tokens, call.requests + 1, call.model)
       - ret[1]
       = call.system_tokens * SONNET_CACHE_READ
         + call.input_tokens * InputPrice(call.model)
         + call.output_tokens * OutputPrice(call.model)

\* C6: for the same token counts and requests >= 1, the combined cost is at
\* most the cached cost, whichever valid tier the cached cost is asked for.
C6_CombinedAtMostCached ==
    (Called("calculate_combined_cost") /\ call.requests >= 1)
    => /\ outcome = "returned"
       /\ \A m \in Choices :
             ret[1] <= calculate_cached_cost(call.input_tokens, call.output_tokens,
                                             call.system_tokens, call.requests, m)

C6_Witness ==
    /\ Called("calculate_combined_cost")
    /\ call.requests >= 2
    /\ call.system_tokens > 0
    /\ call.output_tokens > 0
    /\ \A m \in Choices :
          ret[1] < calculate_cached_cost(call.input_tokens, call.output_tokens,
                                         call.system_tokens, call.requests, m)

DefaultScenario(fn) ==
    /\ Called(fn)
    /\ call.model = "sonnet"
    /\ call.input_tokens = DefaultInput
    /\ call.output_tokens = DefaultOutput
    /\ call.system_tokens = DefaultSystem
    /\ call.requests = DefaultRequests

\* C8 as stated: for sonnet, input 1000, output 500, system 2000 and 100
\* requests the first call costs 0.018, each of the 99 later calls 0.0111,
\* and the total cached cost is 1.1109.
C8_ScenarioTotalAsStated ==
    DefaultScenario("calculate_cached_cost")
    => /\ CachedFirstRequest(call.input_tokens, call.output_tokens,
                             call.system_tokens) = 1800000
       /\ CachedSubsequent(call.input_tokens, call.output_tokens,
                           call.system_tokens, call.requests) = 99 * 1110000
       /\ ret[1] = 111090000

\* C8 amended: for sonnet, input 1000, output 500, system 2000 and 100
\* requests the first call costs 0.018, each of the 99 later calls 0.0111,
\* and the total cached cost is 1.1169 (0.018 + 99 * 0.0111).
C8_ScenarioTotal ==
    DefaultScenario("calculate_cached_cost")
    => /\ CachedFirstRequest(call.input_tokens, call.output_tokens,
                             call.system_tokens) = 1800000
       /\ CachedSubsequent(call.input_tokens, call.output_tokens,
                           call.system_tokens, call.requests) = 99 * 1110000
       /\ ret[1] = 111690000

C8_Witness ==
    /\ DefaultScenario("calculate_cached_cost")
    /\ outcome = "returned"
    /\ ret[1] = 1800000 + 99 * 1110000

\* C9: the report charges input + system tokens at the tier's input price
\* (batch input price) on every request for its normal (batch) figure, and
\* keeps the system tokens apart for its cached and combined figures; for
\* sonnet, 1000, 500, 2000 and 100 requests normal is 1.65 and batch 0.825,
\* exactly half of normal.
C9_ReportFigures ==
    Called("print_report")
    => LET f == locals[1]
           i == call.input_tokens
           o == call.output_tokens
           s == call.system_tokens
           r == call.requests
       IN /\ f.normal = r * ((i + s) * InputPrice(call.model)
                             + o * OutputPrice(call.model))
          /\ f.batch = r * ((i + s) * BatchInputPrice(call.model)
                            + o * BatchOutputPrice(call.model))
          /\ f.cached = calculate_cached_cost(i, o, s, r, call.model)
          /\ f.combined = calculate_combined_cost(i, o, s, r)
          /\ DefaultScenario("print_report")
             => /\ f.normal = 165000000
                /\ f.batch = 82500000
                /\ 2 * f.batch = f.normal
                /\ percent[1].den = 2 * percent[1].num

C9_Witness ==
    /\ DefaultScenario("print_report")
    /\ outcome = "returned"
    /\ locals[1].normal = 165000000
    /\ locals[1].batch = 82500000

\* C10: in the report for sonnet with system_tokens > 0, the cached figure
\* is strictly below the normal figure exactly when requests >= 2; at
\* requests = 1 it is strictly above it.
C10_CachingPaysFromSecondRequest ==
    (Called("print_report") /\ call.model = "sonnet" /\ call.system_tokens > 0)
    => /\ (locals[1].cached < locals[1].normal) <=> (call.requests >= 2)
       /\ call.requests = 1 => locals[1].cached > locals[1].normal

C10_Witness ==
    /\ Called("print_report")
    /\ call.model = "sonnet"
    /\ call.system_tokens > 0
    /\ call.requests = 1
    /\ outcome = "returned"
    /\ locals[1].cached > locals[1].normal
    /\ percent[2].num < 0

\* the wait has returned only after a retrieve that returned "ended", and
\* get_results has run only then, and at most once
C11_Order ==
    /\ bpc \in {"waited", "done"} => status = "ended" /\ polls >= 1
    /\ fetches > 0 => status = "ended" /\ job.processing_status = "ended"
    /\ fetches <= 1
    /\ bpc = "done" <=> fetches = 1

\* a retrieve that returned any other status is followed by the sleep and
\* then another retrieve; get_results is called from the returned wait only
C11_Steps ==
    /\ (bpc = "retrieve" /\ bpc' # "retrieve")
          => (IF status' = "ended" THEN bpc' = "waited" ELSE bpc' = "sleep")
    /\ (bpc = "sleep" /\ bpc' # "sleep") => bpc' = "retrieve"
    /\ fetches' # fetches => (bpc = "waited" /\ status = "ended")

\* C11: submit -> poll -> fetch on every run of the batch example:
\* wait_for_completion returns only after a poll returned "ended" (any other
\* status leads to another poll after the sleep, however many polls that
\* takes), get_results is never called before such a poll, and once the job
\* has ended the wait returns and the results are fetched exactly once.
C11_SubmitPollFetch ==
    /\ []C11_Order
    /\ [][C11_Steps]_vars
    /\ (job.processing_status = "ended") ~> (bpc = "done" /\ fetches = 1)

C11_Witness ==
    /\ bpc = "done"
    /\ fetches = 1
    /\ polls >= MaxPolls
    /\ status = "ended"
    /\ Len(results) = NumTasks
    /\ \E i \in 1..NumTasks : results[i].status = "errored"

====
